---- MODULE Spec2Model ----
(***************************************************************************)
(* A model of two CumulusCI tasks:                                         *)
(*   - UploadProfilePhoto (cumulusci/tasks/salesforce/users/photos.py)     *)
(*   - DeployBundles      (cumulusci/tasks/salesforce/DeployBundles.py)    *)
(* Python strings are modelled as sequences of string tokens, so that a    *)
(* join keeps every piece it is given and a slice is a SubSeq.  Every call *)
(* to the platform client (self.sf) is appended to the log `calls` and its *)
(* outcome is chosen by the platform, i.e. nondeterministically.           *)
(***************************************************************************)
EXTENDS Integers, Sequences, FiniteSets, TLC

VARIABLES
    \* ---- UploadProfilePhoto ----
    where,                \* self.options["where"]
    photo_exists,         \* pathlib.Path(self.options["photo"]).exists()
    identity,             \* self.sf.restful("")["identity"] of the session
    pc,                   \* position of _run_task
    user_id,              \* local user_id of _run_task
    user_rows,            \* user_ids collected by _get_user_id_by_query
    query_outcome,        \* how the user query ended
    content_version_id,   \* result["id"] of ContentVersion.create
    content_document_id,  \* local content_document_id of _run_task
    caught,               \* e.content of the SalesforceMalformedRequest caught
    link_outcome,         \* how the Connect API call ended
    error,                \* the exception _run_task raised to its caller
    calls,                \* every call made to the platform client, in order
    documents,            \* platform state: the ContentDocuments that exist
    version_document,     \* platform state: ContentDocumentId of the ContentVersion
    \* ---- DeployBundles ----
    path_isdir,           \* os.path.isdir(path)
    listing,              \* os.listdir(path), in the file system's order
    subdirs,              \* the entries of path that are directories
    todo,                 \* the rest of sorted(os.listdir(path)) in _run_task
    bpc,                  \* position of DeployBundles._run_task
    deployed,             \* the items handed to _deploy_bundle that deployed
    attempts,             \* the items handed to _deploy_bundle, in order
    deploy_raised,        \* the exception _deploy_bundle raised
    berror,               \* the exception DeployBundles._run_task raised
    fpc,                  \* position of DeployBundles.freeze
    steps                 \* the list freeze returned

photoVars == <<where, photo_exists, identity, pc, user_id, user_rows, query_outcome,
               content_version_id,
               content_document_id, caught, link_outcome, error, calls, documents,
               version_document>>
bundleVars == <<path_isdir, listing, subdirs, todo, bpc, deployed, attempts, deploy_raised,
                berror, fpc, steps>>
vars == <<photoVars, bundleVars>>

-----------------------------------------------------------------------------
(* Bounds of the model *)

\* longest e.content of a rejected request
MaxMsgs == 2
\* most rows a user query returns
MaxRows == 2
\* most conditions in the "where" option
MaxConds == 2
\* entries of the parent directory are named 1..MaxNames
MaxNames == 3

-----------------------------------------------------------------------------
(* Python values.  A string is a sequence of tokens. *)

\* Python's None, distinct from every string the model builds
None == <<"<None>">>

\* an identifier local that is not bound yet
NoId == ""

NoError == [type |-> "", msg |-> <<>>]

RECURSIVE SeqsUpTo(_, _)
\* all sequences over S of length 0..n
SeqsUpTo(S, n) ==
    IF n = 0 THEN {<<>>}
    ELSE LET shorter == SeqsUpTo(S, n - 1)
         IN  shorter \cup {Append(s, x) : s \in {t \in shorter : Len(t) = n - 1}, x \in S}

Distinct(s) == \A i, j \in 1..Len(s) : i # j => s[i] # s[j]

RECURSIVE Join(_, _)
\* sep.join(parts): the parts in order with sep between neighbours
Join(sep, parts) ==
    IF Len(parts) = 0 THEN <<>>
    ELSE IF Len(parts) = 1 THEN parts[1]
    ELSE parts[1] \o sep \o Join(sep, Tail(parts))

\* s[-n:]
LastChars(s, n) == IF Len(s) <= n THEN s ELSE SubSeq(s, Len(s) - n + 1, Len(s))

\* sub in s
Contains(s, sub) ==
    \E i \in 1..(Len(s) + 1) :
        /\ i + Len(sub) - 1 <= Len(s)
        /\ SubSeq(s, i, i + Len(sub) - 1) = sub

-----------------------------------------------------------------------------
(* UploadProfilePhoto: inputs *)

\* entries of e.content: a dict that may lack the "message" key
ErrorEntries == {[has_message |-> TRUE, message |-> <<"bad field">>],
                 [has_message |-> TRUE, message |-> <<"bad value">>],
                 [has_message |-> FALSE, message |-> <<>>]}
Contents == SeqsUpTo(ErrorEntries, MaxMsgs)

UserIds == {<<"005A">>, <<"005B">>, <<"005C">>}
RowLists == {r \in SeqsUpTo(UserIds, MaxRows) : Distinct(r)}

DocumentIds == {"069A", "069B"}
VersionId == "068V"

\* length of a platform identifier
IdLen == 18
\* identity URLs of a session, one character per token
Identities == {<<"i", "d", "/">> \o [i \in 1..IdLen |-> IF i <= 3 THEN "0" ELSE "x"],
               [i \in 1..IdLen |-> IF i <= 3 THEN "0" ELSE "y"]}

\* the conditions a "where" option is made of
Conditions == {[name |-> "Alias", value |-> "grace"],
               [name |-> "alias", value |-> "grace"],
               [name |-> "IsActive", value |-> "true"],
               [name |-> "AboutMe", value |-> "x"]}
\* what the option starts with
Keywords == {"", "WHERE ", "where "}
Wheres == {[keyword |-> k, filters |-> f] : k \in Keywords, f \in SeqsUpTo(Conditions, MaxConds)}

\* "" and None are falsy
Truthy(w) == w.keyword # "" \/ w.filters # <<>>

\* self.sf.User.describe()["fields"] keyed by name
UserFieldNames == {"Alias", "IsActive", "AboutMe"}
_get_user_fields ==
    [n \in UserFieldNames |->
        CASE n = "Alias"    -> [filterable |-> TRUE,  soapType |-> "xsd:string"]
          [] n = "IsActive" -> [filterable |-> TRUE,  soapType |-> "xsd:boolean"]
          [] n = "AboutMe"  -> [filterable |-> FALSE, soapType |-> "xsd:string"]]

string_soap_types == {"xsd:string", "tns:ID", "urn:address"}

-----------------------------------------------------------------------------
(* UploadProfilePhoto: helpers *)

\* error.get("message", "Unknown error.")
ErrorMessage(entry) == IF entry.has_message THEN entry.message ELSE <<"Unknown error.">>

\* the string the expression statement of join_errors builds
JoinedMessages(content) ==
    Join(<<"; ">>, [i \in 1..Len(content) |-> ErrorMessage(content[i])])

\* join_errors has no return statement: it evaluates the join and returns None
join_errors(content) ==
    LET joined == JoinedMessages(content) IN None

\* _raise_cumulusci_exception: the exception it raises
_raise_cumulusci_exception(content) ==
    [type |-> "CumulusCIException", msg |-> join_errors(content)]

RECURSIVE QueryFilters(_)
\* _get_query, lines 59-78: the loop over filters.items(); the exception it
\* raises or the list query_filters it builds
QueryFilters(filters) ==
    IF filters = <<>> THEN [raised |-> FALSE, error |-> NoError, query_filters |-> <<>>]
    ELSE LET name == filters[1].name
             value == filters[1].value
         IN  IF name \notin DOMAIN _get_user_fields
             THEN [raised |-> TRUE,
                   error |-> [type |-> "CumulusCIException",
                              msg |-> <<"User Field \"", name, "\" referenced in \"filters\" option is not found.  Fields are case-sensitive.">>],
                   query_filters |-> <<>>]
             ELSE IF ~_get_user_fields[name].filterable
             THEN [raised |-> TRUE,
                   error |-> [type |-> "CumulusCIException",
                              msg |-> <<"User Field \"", name, "\" referenced in \"filters\" option must be filterable.">>],
                   query_filters |-> <<>>]
             ELSE LET rest == QueryFilters(Tail(filters))
                      cond == IF _get_user_fields[name].soapType \in string_soap_types
                              THEN <<name, " = '", value, "'">>
                              ELSE <<name, " = ", value>>
                  IN  IF rest.raised THEN rest
                      ELSE [rest EXCEPT !.query_filters = <<cond>> \o rest.query_filters]

\* _get_query(filters): the exception it raises or the query it returns.
\* No method of the class calls it.
_get_query(filters) ==
    LET r == QueryFilters(filters)
    IN  [raised |-> r.raised,
         error  |-> r.error,
         query  |-> IF r.raised THEN <<>>
                    ELSE <<"SELECT Id FROM User WHERE ">> \o Join(<<" AND ">>, r.query_filters)]

\* re.sub(r"^WHERE ?", "", where, flags=re.I)
StripWhere(w) ==
    IF w.keyword \in {"WHERE ", "where ", "WHERE", "where"}
    THEN [w EXCEPT !.keyword = ""]
    ELSE w

UserQuery(w) == [select |-> "SELECT Id FROM User WHERE ", rest |-> StripWhere(w)]

\* the methods the class UploadProfilePhoto defines
ClassMethods == {"_raise_cumulusci_exception", "_get_user_fields", "_get_query",
                 "_get_user_id_by_query", "get_default_user_id",
                 "_insert_content_document", "_delete_content_document", "_run_task"}

Call(op, arg) == [op |-> op, arg |-> arg]

\* get_default_user_id: self.sf.restful("")["identity"][-18:]
get_default_user_id(ident) == LastChars(ident, IdLen)

\* the exception a platform call raises that is no SalesforceMalformedRequest
\* (an expired session, a lost connection)
PlatformError == [type |-> "SalesforceError", msg |-> <<"platform error">>]

\* mutant: more than one row is resolved to the first row
ValidateUserIds_First(user_ids) ==
    IF Len(user_ids) < 1
    THEN [raised |-> TRUE, id |-> None,
          error |-> [type |-> "CumulusCIException", msg |-> <<"No Users found.">>]]
    ELSE [raised |-> FALSE, id |-> user_ids[1], error |-> NoError]

\* _get_user_id_by_query, lines 96-108: the validation of the rows collected
\* and the identifier returned
ValidateUserIds(user_ids) ==
    IF Len(user_ids) < 1
    THEN [raised |-> TRUE, id |-> None,
          error |-> [type |-> "CumulusCIException", msg |-> <<"No Users found.">>]]
    ELSE IF 1 < Len(user_ids)
    THEN [raised |-> TRUE, id |-> None,
          error |-> [type |-> "CumulusCIException",
                     msg |-> <<"More than one User found (", ToString(Len(user_ids)), "): ">>
                             \o Join(<<", ">>, user_ids)]]
    ELSE [raised |-> FALSE, id |-> user_ids[1], error |-> NoError]

\* mutant: the except clause names another exception and catches nothing
NeverCatches(outcome) == FALSE

\* mutant: the cleanup runs however the call ended (a finally clause)
AlwaysCatches(outcome) == TRUE

\* the except clause of _run_task catches SalesforceMalformedRequest only
ExceptClauseCatches(outcome) == outcome = "rejected"

\* mutant: the path check is left out
PhotoMissing_Never(exists) == FALSE

\* the guard of line 123: not path.exists()
PhotoMissing(exists) == ~exists

Raise(e) == /\ pc' = "failed"
            /\ error' = e

-----------------------------------------------------------------------------
(* UploadProfilePhoto: the steps of _run_task *)

InitPhoto ==
    /\ where \in Wheres
    /\ photo_exists \in BOOLEAN
    /\ identity \in Identities
    /\ pc = "run"
    /\ user_id = None
    /\ user_rows = <<>>
    /\ query_outcome = "none"
    /\ content_version_id = NoId
    /\ content_document_id = NoId
    /\ caught = <<>>
    /\ link_outcome = "none"
    /\ error = NoError
    /\ calls = <<>>
    /\ documents = {}
    /\ version_document = NoId

\* lines 157-159 and _get_user_id_by_query: the "where" option is truthy
GetUserIdByQuery ==
    /\ pc = "run"
    /\ UNCHANGED bundleVars
    /\ Truthy(where)
    /\ calls' = Append(calls, Call("query_all", UserQuery(where)))
    /\ \/ \E rows \in RowLists :
            LET v == ValidateUserIds(rows)
            IN  /\ query_outcome' = "rows"
                /\ user_rows' = rows
                /\ IF v.raised
                   THEN Raise(v.error) /\ UNCHANGED user_id
                   ELSE /\ user_id' = v.id
                        /\ pc' = "insert"
                        /\ UNCHANGED error
                /\ UNCHANGED caught
       \/ \E content \in Contents :
            /\ query_outcome' = "rejected"
            /\ caught' = content
            /\ Raise(_raise_cumulusci_exception(content))
            /\ UNCHANGED <<user_id, user_rows>>
       \/ /\ query_outcome' = "error"
          /\ Raise(PlatformError)
          /\ UNCHANGED <<user_id, user_rows, caught>>
    /\ UNCHANGED <<where, photo_exists, identity, content_version_id, content_document_id,
                   link_outcome, documents, version_document>>

\* lines 157-161: the "where" option is falsy and _run_task calls
\* self._get_default_user_id(), a name the class does not define
GetDefaultUserId ==
    /\ pc = "run"
    /\ UNCHANGED bundleVars
    /\ ~Truthy(where)
    /\ IF "_get_default_user_id" \in ClassMethods
       THEN /\ calls' = Append(calls, Call("restful", ""))
            /\ user_id' = get_default_user_id(identity)
            /\ pc' = "insert"
            /\ UNCHANGED error
       ELSE /\ Raise([type |-> "AttributeError",
                      msg |-> <<"'UploadProfilePhoto' object has no attribute '_get_default_user_id'">>])
            /\ UNCHANGED <<calls, user_id>>
    /\ UNCHANGED <<where, photo_exists, identity, user_rows, query_outcome, content_version_id,
                   content_document_id, caught, link_outcome, documents, version_document>>

\* _insert_content_document, lines 121-138: the path check and ContentVersion.create
CreateContentVersion ==
    /\ pc = "insert"
    /\ UNCHANGED bundleVars
    /\ IF PhotoMissing(photo_exists)
       THEN /\ Raise([type |-> "CumulusCIException", msg |-> <<"No photo found at path: ", "photo">>])
            /\ UNCHANGED <<calls, content_version_id, documents, version_document>>
       ELSE /\ calls' = Append(calls, Call("ContentVersion.create", "photo"))
            /\ \/ \E d \in DocumentIds :
                    /\ content_version_id' = VersionId
                    /\ documents' = documents \cup {d}
                    /\ version_document' = d
                    /\ pc' = "lookup"
                    /\ UNCHANGED error
               \/ /\ Raise([type |-> "CumulusCIException",
                            msg |-> <<"Failed to create photo ContentVersion: ", "errors">>])
                  /\ UNCHANGED <<content_version_id, documents, version_document>>
               \/ /\ Raise(PlatformError)
                  /\ UNCHANGED <<content_version_id, documents, version_document>>
    /\ UNCHANGED <<where, photo_exists, identity, user_id, user_rows, query_outcome,
                   content_document_id,
                   caught, link_outcome>>

\* _insert_content_document, lines 141-149: the query for the ContentDocumentId
QueryContentDocument ==
    /\ pc = "lookup"
    /\ UNCHANGED bundleVars
    /\ calls' = Append(calls, Call("query", content_version_id))
    /\ \/ /\ content_document_id' = version_document
          /\ pc' = "link"
          /\ UNCHANGED error
       \/ /\ Raise([type |-> "IndexError", msg |-> <<"list index out of range">>])
          /\ UNCHANGED content_document_id
       \/ /\ Raise(PlatformError)
          /\ UNCHANGED content_document_id
    /\ UNCHANGED <<where, photo_exists, identity, user_id, user_rows, query_outcome,
                   content_version_id,
                   caught, link_outcome, documents, version_document>>

\* _run_task, lines 166-172: the Connect API call and the except clause
SetUserPhoto ==
    /\ pc = "link"
    /\ UNCHANGED bundleVars
    /\ calls' = Append(calls, Call("connect/user-profiles/photo",
                                   [user |-> user_id, fileId |-> content_document_id]))
    /\ \/ /\ link_outcome' = "ok"
          /\ UNCHANGED caught
       \/ /\ link_outcome' = "rejected"
          /\ caught' \in Contents
       \/ /\ link_outcome' = "error"
          /\ UNCHANGED caught
    /\ IF ExceptClauseCatches(link_outcome')
       THEN pc' = "cleanup" /\ UNCHANGED error
       ELSE IF link_outcome' = "ok"
       THEN pc' = "done" /\ UNCHANGED error
       ELSE Raise(PlatformError)
    /\ UNCHANGED <<where, photo_exists, identity, user_id, user_rows, query_outcome,
                   content_version_id,
                   content_document_id, documents, version_document>>

\* mutant: the handler raises without deleting the ContentDocument
DeleteAndRaise_NoDelete ==
    /\ pc = "cleanup"
    /\ UNCHANGED bundleVars
    /\ Raise(_raise_cumulusci_exception(caught))
    /\ UNCHANGED <<where, photo_exists, identity, user_id, user_rows, query_outcome,
                   content_version_id, content_document_id, caught, link_outcome, calls,
                   documents, version_document>>

\* _run_task, lines 173-178: the handler deletes the ContentDocument, then raises
DeleteAndRaise ==
    /\ pc = "cleanup"
    /\ UNCHANGED bundleVars
    /\ calls' = Append(calls, Call("ContentDocument.delete", content_document_id))
    /\ \/ /\ documents' = documents \ {content_document_id}
          /\ Raise(_raise_cumulusci_exception(caught))
       \/ /\ Raise(PlatformError)
          /\ UNCHANGED documents
    /\ UNCHANGED <<where, photo_exists, identity, user_id, user_rows, query_outcome,
                   content_version_id,
                   content_document_id, caught, link_outcome, version_document>>

-----------------------------------------------------------------------------
(* DeployBundles: inputs and helpers *)

\* names of directory entries; a smaller number sorts first
Names == 1..MaxNames
Listings == {l \in SeqsUpTo(Names, MaxNames) : Distinct(l)}

Entries(l) == {l[i] : i \in 1..Len(l)}

\* what _deploy_bundle can raise
DeployErrors == {"MetadataApiError", "MetadataComponentFailure"}
NoDeployError == ""

\* self.options["path"], and the step handed to freeze
BundlesPath == "unpackaged/pre"
ParentStep == [path |-> "deploy_pre", step_num |-> "1.2"]
project_config == [repo_owner |-> "SFDO", repo_name |-> "Repo", repo_commit |-> "abc123"]

RECURSIVE Insert(_, _)
\* x put before the first greater element of the sorted sequence s
Insert(x, s) ==
    IF s = <<>> THEN <<x>>
    ELSE IF x <= Head(s) THEN <<x>> \o s
    ELSE <<Head(s)>> \o Insert(x, Tail(s))

\* mutant: the listing is iterated in the file system's order
unsorted(l) == l

RECURSIVE sorted(_)
\* sorted(os.listdir(path))
sorted(l) == IF l = <<>> THEN <<>> ELSE Insert(Head(l), sorted(Tail(l)))

\* the step freeze appends for the i-th item
FreezeStep(i, item) ==
    [name          |-> <<"Deploy ", BundlesPath, "/", ToString(item)>>,
     path          |-> <<ParentStep.path, ".", ToString(item)>>,
     step_num      |-> <<ParentStep.step_num, ".", ToString(i)>>,
     kind          |-> "metadata",
     is_required   |-> TRUE,
     task_class    |-> "cumulusci.tasks.salesforce.UpdateDependencies",
     task_config   |-> [repo_owner |-> project_config.repo_owner,
                        repo_name  |-> project_config.repo_name,
                        tag        |-> project_config.repo_commit,
                        subfolder  |-> <<BundlesPath, "/", ToString(item)>>]]

\* freeze: one step for every item of sorted(os.listdir(path)), numbered from 1
freeze(l) == LET items == sorted(l) IN [i \in 1..Len(items) |-> FreezeStep(i, items[i])]

-----------------------------------------------------------------------------
(* DeployBundles: the steps of _run_task, and freeze *)

InitBundles ==
    /\ path_isdir \in BOOLEAN
    /\ listing \in Listings
    /\ path_isdir = FALSE => listing = <<>>
    /\ subdirs \in SUBSET Entries(listing)
    /\ todo = <<>>
    /\ bpc = "start"
    /\ deployed = <<>>
    /\ attempts = <<>>
    /\ deploy_raised = NoDeployError
    /\ berror = NoDeployError
    /\ fpc = "start"
    /\ steps = <<>>

\* _run_task, lines 17-28: the check of the path and the sorted listing
RunTaskStart ==
    /\ bpc = "start"
    /\ UNCHANGED photoVars
    /\ IF ~path_isdir
       THEN bpc' = "done" /\ UNCHANGED todo
       ELSE bpc' = "loop" /\ todo' = sorted(listing)
    /\ UNCHANGED <<path_isdir, listing, subdirs, deployed, attempts, deploy_raised, berror,
                   fpc, steps>>

\* _run_task, lines 28-37: one iteration of the loop
LoopIteration ==
    /\ bpc = "loop"
    /\ UNCHANGED photoVars
    /\ todo # <<>>
    /\ LET item == Head(todo)
       IN  IF item \notin subdirs
           THEN /\ todo' = Tail(todo)
                /\ UNCHANGED <<bpc, deployed, attempts, deploy_raised, berror>>
           ELSE /\ attempts' = Append(attempts, item)
                /\ \/ /\ deployed' = Append(deployed, item)
                      /\ todo' = Tail(todo)
                      /\ UNCHANGED <<bpc, deploy_raised, berror>>
                   \/ \E e \in DeployErrors :
                         /\ deploy_raised' = e
                         /\ berror' = e
                         /\ bpc' = "failed"
                         /\ UNCHANGED <<todo, deployed>>
    /\ UNCHANGED <<path_isdir, listing, subdirs, fpc, steps>>

\* _run_task: the loop is exhausted and the method returns
LoopEnd ==
    /\ bpc = "loop"
    /\ UNCHANGED photoVars
    /\ todo = <<>>
    /\ bpc' = "done"
    /\ UNCHANGED <<path_isdir, listing, subdirs, todo, deployed, attempts, deploy_raised,
                   berror, fpc, steps>>

\* freeze(step); os.listdir raises when the path is no directory
Freeze ==
    /\ fpc = "start"
    /\ UNCHANGED photoVars
    /\ IF path_isdir
       THEN fpc' = "done" /\ steps' = freeze(listing)
       ELSE fpc' = "failed" /\ UNCHANGED steps
    /\ UNCHANGED <<path_isdir, listing, subdirs, todo, bpc, deployed, attempts,
                   deploy_raised, berror>>

-----------------------------------------------------------------------------
(* The two specifications.  The tasks share no state: each specification   *)
(* runs one task and leaves the other where it starts.                     *)

IdlePhoto ==
    /\ where = [keyword |-> "", filters |-> <<>>]
    /\ photo_exists = FALSE
    /\ identity = <<>>
    /\ pc = "idle"
    /\ user_id = None
    /\ user_rows = <<>>
    /\ query_outcome = "none"
    /\ content_version_id = NoId
    /\ content_document_id = NoId
    /\ caught = <<>>
    /\ link_outcome = "none"
    /\ error = NoError
    /\ calls = <<>>
    /\ documents = {}
    /\ version_document = NoId

IdleBundles ==
    /\ path_isdir = FALSE
    /\ listing = <<>>
    /\ subdirs = {}
    /\ todo = <<>>
    /\ bpc = "idle"
    /\ deployed = <<>>
    /\ attempts = <<>>
    /\ deploy_raised = NoDeployError
    /\ berror = NoDeployError
    /\ fpc = "idle"
    /\ steps = <<>>

Init == InitPhoto /\ IdleBundles

Next ==
    \/ GetUserIdByQuery
    \/ GetDefaultUserId
    \/ CreateContentVersion
    \/ QueryContentDocument
    \/ SetUserPhoto
    \/ DeleteAndRaise

Spec == Init /\ [][Next]_vars

InitB == InitBundles /\ IdlePhoto

NextBundles ==
    \/ RunTaskStart
    \/ LoopIteration
    \/ LoopEnd
    \/ Freeze

SpecBundles == InitB /\ [][NextBundles]_vars

-----------------------------------------------------------------------------
(* Properties of UploadProfilePhoto, stated for Spec *)

CallsTo(op) == {i \in 1..Len(calls) : calls[i].op = op}

DeletesOf(d) ==
    {i \in 1..Len(calls) : calls[i].op = "ContentDocument.delete" /\ calls[i].arg = d}

ErrorIsNoPhoto ==
    error = [type |-> "CumulusCIException", msg |-> <<"No photo found at path: ", "photo">>]

\* C1: when the Connect API call is rejected (create and lookup having
\* succeeded), the ContentDocument is deleted exactly once, the delete is
\* called before any error is raised, and the run ends in failure, never in
\* success.
C1_CleanupOnRejectedLink ==
    link_outcome = "rejected" =>
        /\ pc \in {"cleanup", "failed"}
        /\ pc = "cleanup" => error = NoError /\ DeletesOf(content_document_id) = {}
        /\ pc = "failed" => /\ error # NoError
                            /\ Cardinality(DeletesOf(content_document_id)) = 1
                            /\ Cardinality(CallsTo("ContentDocument.delete")) = 1

C1_Witness ==
    /\ link_outcome = "rejected"
    /\ pc = "failed"
    /\ Cardinality(DeletesOf(content_document_id)) = 1

\* C2: a run ends in success only when the Connect API call was accepted,
\* and then no delete was ever called and the ContentDocument still exists.
C2_NoDeleteOnSuccess ==
    /\ pc = "done" => link_outcome = "ok"
    /\ link_outcome = "ok" =>
        /\ pc = "done"
        /\ CallsTo("ContentDocument.delete") = {}
        /\ content_document_id \in documents

C2_Witness ==
    /\ pc = "done"
    /\ link_outcome = "ok"
    /\ content_document_id \in documents

\* C3 as claimed: a run succeeds with the photo linked, or it fails and, if a
\* ContentVersion had been created, a delete was attempted before the failure.
C3_AtomicOrCleanedUp ==
    /\ pc = "done" => link_outcome = "ok"
    /\ (pc = "failed" /\ content_version_id # NoId) =>
           CallsTo("ContentDocument.delete") # {}

\* C3 amended: a run succeeds with the photo linked, or it fails; a delete
\* of the ContentDocument is attempted before the failure exactly when the
\* failure is the platform's rejection of the Connect API call.  After a
\* failed lookup of the ContentDocument, or a Connect API failure that is no
\* rejection, the ContentVersion is created and no delete is attempted.
C3_CleanupOnlyOnRejectedLink ==
    /\ pc = "done" =>
        /\ link_outcome = "ok"
        /\ calls[Len(calls)] = Call("connect/user-profiles/photo",
                                    [user |-> user_id, fileId |-> content_document_id])
    /\ (pc = "failed" /\ link_outcome = "rejected") =>
           DeletesOf(content_document_id) # {}
    /\ (pc = "failed" /\ content_version_id # NoId /\ link_outcome # "rejected") =>
           CallsTo("ContentDocument.delete") = {}

C3_Witness ==
    /\ pc = "failed"
    /\ content_version_id # NoId
    /\ content_document_id = NoId
    /\ version_document \in documents

\* C5: a user query that returns rows resolves to exactly one user or
\* fails: no row fails with "No Users found.", two or more rows fail with a
\* message that contains every identifier returned, one row is the user.
\* No other user is ever chosen.
C5_ExactlyOneUser ==
    /\ query_outcome = "rows" =>
        /\ Len(user_rows) = 0 =>
              /\ pc = "failed"
              /\ error = [type |-> "CumulusCIException", msg |-> <<"No Users found.">>]
              /\ user_id = None
        /\ Len(user_rows) > 1 =>
              /\ pc = "failed"
              /\ error.type = "CumulusCIException"
              /\ error.msg[1] = "More than one User found ("
              /\ \A i \in 1..Len(user_rows) : Contains(error.msg, user_rows[i])
              /\ user_id = None
        /\ Len(user_rows) = 1 =>
              /\ user_id = user_rows[1]
              /\ error.msg # <<"No Users found.">>
    /\ user_id # None => query_outcome = "rows" /\ user_rows = <<user_id>>

C5_Witness ==
    /\ query_outcome = "rows"
    /\ Len(user_rows) = 2
    /\ pc = "failed"
    /\ Contains(error.msg, user_rows[2])

\* C6 as claimed: without a "where" option the user is the last 18
\* characters of the session's identity and the run goes on to the upload.
C6_DefaultUserResolved ==
    (~Truthy(where) /\ pc # "run") =>
        /\ user_id = get_default_user_id(identity)
        /\ error.type # "AttributeError"

\* C7 as claimed: the exception that wraps a rejected request (user query or
\* Connect API call) carries the messages of the request joined by "; ".
C7_MessagesJoined ==
    (/\ pc = "failed"
     /\ error.type = "CumulusCIException"
     /\ \/ query_outcome = "rejected"
        \/ link_outcome = "rejected") =>
        error.msg = JoinedMessages(caught)

\* C8 as claimed: with a missing photo the run never succeeds, and when it
\* fails with the not-found error no platform call has been made.
C8_NoCallsOnMissingPhoto ==
    ~photo_exists =>
        /\ pc # "done"
        /\ ErrorIsNoPhoto => calls = <<>>

\* C8 amended: with a missing photo the run never succeeds; no create, no
\* lookup of the ContentDocument, no Connect API call and no delete is ever
\* made; a run that has resolved its user fails with the not-found error,
\* and the one platform call made before that failure is the user query.
C8_OnlyUserQueryOnMissingPhoto ==
    ~photo_exists =>
        /\ pc # "done"
        /\ \A i \in 1..Len(calls) : calls[i].op = "query_all"
        /\ (pc = "failed" /\ user_id # None) =>
              /\ ErrorIsNoPhoto
              /\ calls = <<Call("query_all", UserQuery(where))>>

C8_Witness ==
    /\ ~photo_exists
    /\ pc = "failed"
    /\ user_id # None
    /\ ErrorIsNoPhoto

\* C10 as claimed: when the "where" option names a field that is unknown or
\* not filterable, no user query is sent and the run fails with the
\* configuration error of _get_query.
C10_FieldsValidatedBeforeQuery ==
    (Truthy(where) /\ _get_query(where.filters).raised) =>
        /\ CallsTo("query_all") = {}
        /\ pc # "run" => error = _get_query(where.filters).error

-----------------------------------------------------------------------------
(* Properties of DeployBundles, stated for SpecBundles *)

RECURSIVE Ascending(_)
\* the elements of a set of names, smallest first
Ascending(S) ==
    IF S = {} THEN <<>>
    ELSE LET m == CHOOSE x \in S : \A y \in S : x <= y
         IN  <<m>> \o Ascending(S \ {m})

\* C4 as claimed: the i-th bundle deployed is the entry of the step whose
\* step_num ends in i, and there are as many steps as bundles deployed.
C4_DeployOrderIsFreezeOrder ==
    (bpc = "done" /\ fpc = "done") =>
        /\ Len(deployed) = Len(steps)
        /\ \A i \in 1..Len(deployed) :
              \E j \in 1..Len(steps) :
                  /\ steps[j].step_num = <<ParentStep.step_num, ".", ToString(i)>>
                  /\ steps[j].name = <<"Deploy ", BundlesPath, "/", ToString(deployed[i])>>

\* C9: when the deploy of the k-th subdirectory in sorted order fails, the
\* run raises that very exception, the subdirectories 1..k-1 have deployed
\* once each in sorted order, and nothing after the k-th is handed to
\* _deploy_bundle.
C9_FailureHaltsIteration ==
    bpc = "failed" =>
        LET k == Len(attempts)
            dirs == Ascending(subdirs)
        IN  /\ k >= 1
            /\ k <= Len(dirs)
            /\ attempts = SubSeq(dirs, 1, k)
            /\ deployed = SubSeq(dirs, 1, k - 1)
            /\ berror = deploy_raised
            /\ berror \in DeployErrors

C9_Witness ==
    /\ bpc = "failed"
    /\ Len(attempts) = 2
    /\ Cardinality(subdirs) = 3
    /\ listing # Ascending(Entries(listing))

====
